---- MODULE Spec2Model ----
(***************************************************************************)
(* Model of scripts/scrape_survivor_items.py: the category traversal       *)
(* (discover_item_pages / iter_category_members), the per-title extraction *)
(* (parse_item_page) and the run orchestration (main).                     *)
(*                                                                         *)
(* Python strings are modelled as sequences of code points, so that        *)
(* sorted(), str.lower(), str.endswith(), str.strip() and str.replace()    *)
(* are computed as Python computes them.  An Optional value is modelled as *)
(* a sequence of length at most one: None is <<>>, a value v is <<v>>.     *)
(***************************************************************************)
EXTENDS Integers, Sequences, FiniteSets, TLC

\* ------------------------------------------------------------------------
\* Bounds of the model
\* ------------------------------------------------------------------------
MaxEntries == 3    \* category-membership entries in the whole wiki
MaxLimit == 1      \* --limit ranges over -1 .. MaxLimit
MaxRows == 2       \* rows of a table
MaxCells == 3      \* cells of a table row
MaxCats == 3       \* categories of a rendered page

\* ------------------------------------------------------------------------
\* Strings (code-point sequences)
\* ------------------------------------------------------------------------
RootCategory == <<67, 97, 116, 101, 103, 111, 114, 121, 58, 73, 116, 101, 109, 115>>  \* "Category:Items"
CatA == <<67, 97, 116, 101, 103, 111, 114, 121, 58, 65>>  \* "Category:A"
CatB == <<67, 97, 116, 101, 103, 111, 114, 121, 58, 66>>  \* "Category:B"
Axe == <<65, 120, 101>>  \* "Axe"
Ax == <<65, 120>>  \* "Ax"
FileX == <<70, 105, 108, 101, 58, 88>>  \* "File:X"
WIKI_BASE == <<104, 116, 116, 112, 115, 58, 47, 47, 100, 101, 97, 100, 98, 121, 100, 97, 121, 108, 105, 103, 104, 116, 46, 119, 105, 107, 105, 46, 103, 103>>  \* "https://deadbydaylight.wiki.gg"
WikiPath == <<47, 119, 105, 107, 105, 47>>  \* "/wiki/"
HttpPrefix == <<104, 116, 116, 112, 58, 47, 47>>  \* "http://"
HttpsPrefix == <<104, 116, 116, 112, 115, 58, 47, 47>>  \* "https://"
SrcRooted == <<47, 97, 46, 112, 110, 103>>  \* "/a.png"
SrcRelative == <<97, 46, 112, 110, 103>>  \* "a.png"
SrcAbsolute == <<104, 116, 116, 112, 115, 58, 47, 47, 120, 47, 97, 46, 112, 110, 103>>  \* "https://x/a.png"
CItems == <<73, 116, 101, 109, 115>>  \* "Items"
CVeryRare == <<86, 101, 114, 121, 32, 82, 97, 114, 101, 32, 73, 116, 101, 109, 115>>  \* "Very Rare Items"
CSurvivor == <<83, 117, 114, 118, 105, 118, 111, 114, 32, 73, 116, 101, 109, 115>>  \* "Survivor Items"
CRareRaw == <<82, 97, 114, 101, 95, 73, 116, 101, 109, 115>>  \* "Rare_Items"
CLower == <<77, 97, 112, 32, 105, 116, 101, 109, 115>>  \* "Map items"
CPagesUsing == <<80, 97, 103, 101, 115, 32, 117, 115, 105, 110, 103, 32, 88, 32, 73, 116, 101, 109, 115>>  \* "Pages using X Items"
CPerks == <<80, 101, 114, 107, 115>>  \* "Perks"
SfxItems == <<32, 105, 116, 101, 109, 115>>  \* " items"
StrItems == <<105, 116, 101, 109, 115>>  \* "items"
PfxPagesUsing == <<112, 97, 103, 101, 115, 32, 117, 115, 105, 110, 103, 32>>  \* "pages using "

None == <<>>
Some(v) == <<v>>

Min(a, b) == IF a <= b THEN a ELSE b

Range(s) == {s[k] : k \in 1..Len(s)}

\* Python's str < str: code-point lexicographic order, a proper prefix first.
StrLess(a, b) ==
    \E k \in 1..(Min(Len(a), Len(b)) + 1) :
        /\ \A j \in 1..(k - 1) : a[j] = b[j]
        /\ \/ k > Len(a) /\ k <= Len(b)
           \/ k <= Len(a) /\ k <= Len(b) /\ a[k] < b[k]

\* sorted(pages) for a set of strings.
RECURSIVE Sorted(_)
Sorted(S) ==
    IF S = {} THEN <<>>
    ELSE LET m == CHOOSE x \in S : \A y \in S \ {x} : StrLess(x, y)
         IN  <<m>> \o Sorted(S \ {m})

\* ------------------------------------------------------------------------
\* The remote wiki (environment)
\* ------------------------------------------------------------------------
Cats == {RootCategory, CatA, CatB}

\* One entry of a categorymembers listing.  A member without a "title" key
\* (m.get("title") is None) is represented by the empty title.
Member(ns, title) == [ns |-> ns, title |-> title]

Universe ==
    {Member(14, CatA), Member(14, CatB), Member(14, RootCategory),
     Member(0, Axe), Member(0, Ax), Member(6, FileX), Member(0, <<>>)}

\* The sets of at most n elements of S.
RECURSIVE SubsetsUpTo(_, _)
SubsetsUpTo(S, n) ==
    IF n = 0 \/ S = {} THEN {{}}
    ELSE LET x == CHOOSE y \in S : TRUE
         IN  SubsetsUpTo(S \ {x}, n) \cup {T \cup {x} : T \in SubsetsUpTo(S \ {x}, n - 1)}

\* The categories reachable from the root through namespace-14 members.
RECURSIVE CatClosure(_, _)
CatClosure(w, S) ==
    LET step == S \cup {m.title : m \in {x \in UNION {w[c] : c \in S} :
                                            x.ns = 14 /\ x.title # <<>>}}
    IN  IF step = S THEN S ELSE CatClosure(w, step)

ReachableCats(w) == CatClosure(w, {RootCategory})

\* The category graphs of the model: every way of tagging members of the
\* universe with categories that uses at most MaxEntries tags.  A category
\* outside the root's tree is never requested, so it is left without
\* members.
Wikis ==
    {w \in {[c \in Cats |-> {m \in Universe : <<c, m>> \in E}]
            : E \in SubsetsUpTo(Cats \X Universe, MaxEntries)}
       : \A c \in Cats \ ReachableCats(w) : w[c] = {}}

\* Non-empty sequences of distinct elements of S: the member lists one
\* response page may carry when S is still to be listed.
Listings(S) ==
    UNION {{s \in [1..n -> S] : \A a, b \in 1..n : a # b => s[a] # s[b]}
           : n \in 1..Cardinality(S)}

VARIABLES
    pc,          \* position of main(): "traverse", "members", "extract", "done", "crashed"
    limit,       \* args.limit
    seen_cats,   \* discover_item_pages: seen_cats
    queue,       \* discover_item_pages: queue
    pages,       \* discover_item_pages: pages
    cat,         \* discover_item_pages: cat
    cont,        \* iter_category_members: cont ({} when empty)
    titles,      \* main: titles
    i,           \* main: number of titles the extraction loop has handled
    items,       \* main: items
    errors,      \* main: errors
    payload,     \* the document written to args.out (None until written)
    wiki,        \* the remote category graph: category title -> set of members
    discovered,  \* the list discover_item_pages returned (None until it returns)
    visits,      \* category title -> number of times its enumeration was started
    failures,    \* number of categorymembers requests that failed
    member_reqs, \* category title -> number of categorymembers requests issued
    tokens,      \* category title -> number of responses that carried a continuation
    consumed,    \* category title -> members the traversal loop has handled
    sent_tok,    \* continuation carried by the last categorymembers request
    got_tok,     \* continuation returned by the last categorymembers response
    render_reqs, \* page title -> number of action=parse requests issued
    last_out,    \* last outbound event: "none", "request" or "sleep"
    burst,       \* TRUE once a request was issued right after another request
    arg_title,   \* parse_item_page called on its own: the title argument
    arg_data,    \* parse_item_page called on its own: the render response
    result       \* parse_item_page called on its own: its outcome (None before)

call == <<arg_title, arg_data, result>>

\* Bookkeeping that only a start or a failure of an enumeration changes.
marks == <<visits, failures>>

vars == <<pc, limit, seen_cats, queue, pages, cat, cont, titles, i, items,
          errors, payload, wiki, discovered, member_reqs, tokens, consumed,
          sent_tok, got_tok, render_reqs, last_out, burst, arg_title,
          arg_data, result, visits, failures>>

PageTitles == {m.title : m \in {u \in Universe : u.ns = 0 /\ u.title # <<>>}}

Init ==
    /\ pc = "traverse"
    /\ limit \in -1..MaxLimit
    /\ seen_cats = {}
    /\ queue = <<RootCategory>>
    /\ pages = {}
    /\ cat = None
    /\ cont = {}
    /\ titles = <<>>
    /\ i = 0
    /\ items = <<>>
    /\ errors = <<>>
    /\ payload = None
    /\ wiki \in Wikis
    /\ discovered = None
    /\ visits = [c \in Cats |-> 0]
    /\ failures = 0
    /\ member_reqs = [c \in Cats |-> 0]
    /\ tokens = [c \in Cats |-> 0]
    /\ consumed = [c \in Cats |-> {}]
    /\ sent_tok = {}
    /\ got_tok = {}
    /\ render_reqs = [t \in PageTitles |-> 0]
    /\ last_out = "none"
    /\ burst = FALSE
    /\ arg_title = None
    /\ arg_data = None
    /\ result = None

\* ------------------------------------------------------------------------
\* discover_item_pages / iter_category_members
\* ------------------------------------------------------------------------

\* HandleMembers with the namespace-0 test dropped: whatever is not a
\* category is taken for a page.
RECURSIVE HandleMembers_AnyNamespace(_, _, _)
HandleMembers_AnyNamespace(ms, q, p) ==
    IF ms = <<>> THEN [queue |-> q, pages |-> p]
    ELSE LET m == Head(ms)
         IN  IF m.title = <<>> THEN HandleMembers_AnyNamespace(Tail(ms), q, p)
             ELSE IF m.ns = 14
                  THEN HandleMembers_AnyNamespace(Tail(ms), Append(q, m.title), p)
             ELSE HandleMembers_AnyNamespace(Tail(ms), q, p \cup {m.title})

\* The body of "for m in iter_category_members(...)" applied to the members
\* of one response page, in order.
RECURSIVE HandleMembers(_, _, _)
HandleMembers(ms, q, p) ==
    IF ms = <<>> THEN [queue |-> q, pages |-> p]
    ELSE LET m == Head(ms)
         IN  IF m.title = <<>> THEN HandleMembers(Tail(ms), q, p)
             ELSE IF m.ns = 14 THEN HandleMembers(Tail(ms), Append(q, m.title), p)
             ELSE IF m.ns = 0 THEN HandleMembers(Tail(ms), q, p \cup {m.title})
             ELSE HandleMembers(Tail(ms), q, p)

\* while queue: cat = queue.pop(0); if cat in seen_cats: continue
SkipSeenCategory ==
    /\ pc = "traverse"
    /\ queue # <<>>
    /\ Head(queue) \in seen_cats
    /\ cat' = Head(queue)
    /\ queue' = Tail(queue)
    /\ UNCHANGED <<pc, limit, seen_cats, pages, cont, titles, i, items, errors,
                   payload, wiki, discovered, member_reqs, tokens, consumed,
                   sent_tok, got_tok, render_reqs, last_out, burst, call, marks>>

\* VisitCategory without the test "cat in seen_cats".
VisitCategory_NoSeenCheck ==
    /\ pc = "traverse"
    /\ queue # <<>>
    /\ cat' = Head(queue)
    /\ queue' = Tail(queue)
    /\ seen_cats' = seen_cats \cup {Head(queue)}
    /\ cont' = {}
    /\ pc' = "members"
    /\ visits' = [visits EXCEPT ![Head(queue)] = @ + 1]
    /\ UNCHANGED <<limit, pages, titles, i, items, errors, payload, wiki,
                   discovered, member_reqs, tokens, consumed, sent_tok, got_tok,
                   render_reqs, last_out, burst, call, failures>>

\* cat = queue.pop(0); seen_cats.add(cat); iter_category_members starts with
\* cont = {}.
VisitCategory ==
    /\ pc = "traverse"
    /\ queue # <<>>
    /\ Head(queue) \notin seen_cats
    /\ cat' = Head(queue)
    /\ queue' = Tail(queue)
    /\ seen_cats' = seen_cats \cup {Head(queue)}
    /\ cont' = {}
    /\ pc' = "members"
    /\ visits' = [visits EXCEPT ![Head(queue)] = @ + 1]
    /\ UNCHANGED <<limit, pages, titles, i, items, errors, payload, wiki,
                   discovered, member_reqs, tokens, consumed, sent_tok, got_tok,
                   render_reqs, last_out, burst, call, failures>>

\* What is still to be listed for a request carrying continuation c: the
\* token stands for the position in the listing.
Remaining(category, c) == IF c = {} THEN wiki[category] ELSE c

\* NextCont that forgets the continuation of the response.
NextCont_Dropped(response) == {}

\* The continuation the generator keeps after a response: data.get("continue", {}).
NextCont(response) == response.continue

\* One pass of the "while True" loop of iter_category_members with a
\* successful fetch_json, together with the consumer's loop body for every
\* member yielded from that response.
FetchMembers ==
    /\ pc = "members"
    /\ \E ms \in (IF Remaining(cat, cont) = {} THEN {<<>>}
                  ELSE Listings(Remaining(cat, cont))) :
         LET rest     == Remaining(cat, cont) \ Range(ms)
             response == [members |-> ms, continue |-> rest]
             h        == HandleMembers(response.members, queue, pages)
         IN  /\ queue' = h.queue
             /\ pages' = h.pages
             /\ cont' = NextCont(response)
             /\ pc' = IF NextCont(response) = {} THEN "traverse" ELSE "members"
             /\ got_tok' = response.continue
             /\ tokens' = [tokens EXCEPT ![cat] = @ + (IF rest = {} THEN 0 ELSE 1)]
             /\ consumed' = [consumed EXCEPT ![cat] = @ \cup Range(ms)]
    /\ sent_tok' = cont
    /\ member_reqs' = [member_reqs EXCEPT ![cat] = @ + 1]
    /\ burst' = (burst \/ last_out = "request")
    \* time.sleep(sleep_s): line 117 between continuation calls, line 146
    \* after the last response of the category.
    /\ last_out' = "sleep"
    /\ UNCHANGED <<limit, seen_cats, cat, titles, i, items, errors, payload,
                   wiki, discovered, render_reqs, call, marks>>

\* FetchMembersFail with the error swallowed: the category is taken to have
\* no more members and the traversal goes on.
FetchMembersFail_Skipped ==
    /\ pc = "members"
    /\ pc' = "traverse"
    /\ sent_tok' = cont
    /\ member_reqs' = [member_reqs EXCEPT ![cat] = @ + 1]
    /\ burst' = (burst \/ last_out = "request")
    /\ last_out' = "request"
    /\ failures' = failures + 1
    /\ UNCHANGED <<limit, seen_cats, queue, pages, cat, cont, titles, i, items,
                   errors, payload, wiki, discovered, tokens, consumed, got_tok,
                   render_reqs, call, visits>>

\* fetch_json raises FetchError inside iter_category_members; neither
\* discover_item_pages nor main catches it.
FetchMembersFail ==
    /\ pc = "members"
    /\ pc' = "crashed"
    /\ sent_tok' = cont
    /\ member_reqs' = [member_reqs EXCEPT ![cat] = @ + 1]
    /\ burst' = (burst \/ last_out = "request")
    /\ last_out' = "request"
    /\ failures' = failures + 1
    /\ UNCHANGED <<limit, seen_cats, queue, pages, cat, cont, titles, i, items,
                   errors, payload, wiki, discovered, tokens, consumed, got_tok,
                   render_reqs, call, visits>>

\* titles[: args.limit]
Take(s, n) ==
    IF n >= 0 THEN SubSeq(s, 1, Min(n, Len(s)))
    ELSE SubSeq(s, 1, IF Len(s) + n > 0 THEN Len(s) + n ELSE 0)

\* LimitApplies without the test "args.limit > 0".
LimitApplies_NonZero(n) == n # 0

\* args.limit and args.limit > 0
LimitApplies(n) == n # 0 /\ n > 0

\* The queue is empty: return sorted(pages); main then applies --limit and
\* creates the two result lists.
ReturnTitles ==
    /\ pc = "traverse"
    /\ queue = <<>>
    /\ discovered' = Some(Sorted(pages))
    /\ titles' = IF LimitApplies(limit) THEN Take(Sorted(pages), limit) ELSE Sorted(pages)
    /\ items' = <<>>
    /\ errors' = <<>>
    /\ i' = 0
    /\ pc' = "extract"
    /\ UNCHANGED <<limit, seen_cats, queue, pages, cat, cont, payload, wiki,
                   member_reqs, tokens, consumed, sent_tok, got_tok, render_reqs,
                   last_out, burst, call, marks>>

\* ------------------------------------------------------------------------
\* String helpers used by parse_item_page
\* ------------------------------------------------------------------------

\* str.lower() on ASCII text.
Lower(s) == [k \in 1..Len(s) |-> IF s[k] \in 65..90 THEN s[k] + 32 ELSE s[k]]

\* str.replace(a, b) for single characters a and b.
Replace(s, a, b) == [k \in 1..Len(s) |-> IF s[k] = a THEN b ELSE s[k]]

StartsWith(s, prefix) ==
    Len(s) >= Len(prefix) /\ SubSeq(s, 1, Len(prefix)) = prefix

EndsWith(s, suffix) ==
    Len(s) >= Len(suffix) /\ SubSeq(s, Len(s) - Len(suffix) + 1, Len(s)) = suffix

\* The ASCII characters str.strip() removes.
IsSpace(ch) == ch \in {9, 10, 11, 12, 13, 28, 29, 30, 31, 32}

RECURSIVE LStrip(_)
LStrip(s) == IF s # <<>> /\ IsSpace(Head(s)) THEN LStrip(Tail(s)) ELSE s

RECURSIVE RStrip(_)
RStrip(s) ==
    IF s # <<>> /\ IsSpace(s[Len(s)]) THEN RStrip(SubSeq(s, 1, Len(s) - 1)) ELSE s

\* str.strip()
Strip(s) == RStrip(LStrip(s))

\* cat.replace("_", " ").strip()
normalize_category_name(c) == Strip(Replace(c, 95, 32))

\* urllib.parse.quote on ASCII text: letters, digits and "_.-~/" are kept,
\* any other character becomes %XX.
SafeChar(ch) == ch \in (48..57) \cup (65..90) \cup (97..122) \cup {95, 46, 45, 126, 47}

HexDigit(d) == IF d < 10 THEN 48 + d ELSE 55 + d

RECURSIVE Quote(_)
Quote(s) ==
    IF s = <<>> THEN <<>>
    ELSE (IF SafeChar(Head(s)) THEN <<Head(s)>>
          ELSE <<37, HexDigit(Head(s) \div 16), HexDigit(Head(s) % 16)>>)
         \o Quote(Tail(s))

canonical_page_url(title) == WIKI_BASE \o WikiPath \o Quote(Replace(title, 32, 95))

join_url(path_or_url) ==
    IF path_or_url = <<>> THEN path_or_url
    ELSE IF StartsWith(path_or_url, HttpPrefix) \/ StartsWith(path_or_url, HttpsPrefix)
         THEN path_or_url
    ELSE IF StartsWith(path_or_url, <<47>>) THEN WIKI_BASE \o path_or_url
    ELSE WIKI_BASE \o <<47>> \o path_or_url

\* ------------------------------------------------------------------------
\* Rendered pages (environment)
\* ------------------------------------------------------------------------

ParsedCost(amount, currency) == [amount |-> amount, currency |-> currency]

NoDescription == [summary |-> None, effects |-> <<>>, flavor_text |-> None, raw_text |-> None]

\* An <img> element: its alt and src attributes, None when missing.
Img(alt, src) == [alt |-> alt, src |-> src]

\* A <ul> of a cell as the loops of lines 216-230 see it: before is the text
\* of each child of the cell that precedes the list, lis the text of each
\* <li> of the list.
List(before, lis) == [before |-> before, lis |-> lis]

\* A table cell, by what the markup queries of the code answer on it:
\* imgs is select("img"), text is get_text(" ", strip=True), ul is
\* find("ul") and italics the text of each element of select("p i").
Cell(imgs, text, ul, italics) == [imgs |-> imgs, text |-> text, ul |-> ul, italics |-> italics]

TxtIcon        == <<73, 99, 111, 110>>                                      \* "Icon"
TxtProse       == <<32, 66, 111, 111, 115, 116, 115, 32, 32, 108, 117, 99, 107, 32, 46>>
                                                                            \* " Boosts  luck ."
TxtEffect      == <<72, 101, 97, 108, 115, 32, 102, 97, 115, 116, 101, 114, 32, 44>>
                                                                            \* "Heals faster ,"
TxtBlank       == <<32, 32>>                                                \* "  "
TxtPlain       == <<76, 117, 99, 107, 121>>                                 \* "Lucky"
TxtQuote       == <<34, 66, 111, 108, 100, 32, 33, 34>>                     \* "\"Bold !\""
TxtDescription == <<66, 111, 111, 115, 116, 115, 32, 32, 108, 117, 99, 107, 32, 46, 32,
                    72, 101, 97, 108, 115, 32, 102, 97, 115, 116, 101, 114, 32, 44, 32,
                    34, 66, 111, 108, 100, 32, 33, 34>>
                                                \* "Boosts  luck . Heals faster , \"Bold !\""
TxtCost        == <<53, 44, 53, 48, 48>>                                    \* "5,500"
TxtCostWords   == <<67, 111, 115, 116, 58, 32, 54, 44, 48, 48, 48, 32, 83, 104, 97, 114, 100, 115>>
                                                                            \* "Cost: 6,000 Shards"
AltBloodpoints == <<66, 108, 111, 111, 100, 112, 111, 105, 110, 116, 115, 32, 105, 99, 111, 110>>
                                                                            \* "Bloodpoints icon"
SrcAuric       == <<47, 65, 117, 114, 105, 99, 46, 112, 110, 103>>          \* "/Auric.png"

HeaderCell    == Cell(<<>>, TxtIcon, None, <<>>)
IconCell      == Cell(<<Img(Some(<<>>), Some(SrcRooted))>>, <<>>, None, <<>>)
RelIconCell   == Cell(<<Img(None, Some(SrcRelative))>>, <<>>, None, <<>>)
BareImageCell == Cell(<<Img(None, None), Img(None, Some(SrcAuric))>>, <<>>, None, <<>>)
DescriptionCell ==
    Cell(<<>>, TxtDescription,
         Some(List(<<TxtProse, TxtBlank>>, <<TxtEffect, TxtBlank>>)),
         <<TxtPlain, TxtQuote>>)
CostCell      == Cell(<<Img(Some(AltBloodpoints), Some(SrcAbsolute))>>, TxtCost, None, <<>>)
CostWordsCell == Cell(<<>>, TxtCostWords, None, <<>>)

Cells == {IconCell, BareImageCell, DescriptionCell, CostCell, CostWordsCell}

Rows == UNION {[1..n -> Cells] : n \in 0..MaxCells}

HeaderRow == <<HeaderCell, HeaderCell, HeaderCell>>

FullRow == <<RelIconCell, DescriptionCell, CostCell>>

\* The rows of a table.wikitable: none, a header row alone, or a header row,
\* any row and further complete rows, MaxRows in all at most.
RowLists ==
    {<<>>, <<HeaderRow>>}
    \cup {<<HeaderRow, r>> \o [k \in 1..n |-> FullRow] : r \in Rows, n \in 0..(MaxRows - 2)}

\* tbody tells whether the rows are wrapped in a <tbody> element.
Tables == {[tbody |-> b, rows |-> r] : b \in BOOLEAN, r \in RowLists}

\* The parsed HTML: its first table.wikitable, if any.
Docs == {[table |-> None]} \cup {[table |-> Some(t)] : t \in Tables}

\* Raw category names of a parse result; the empty name stands for an entry
\* without "*".
CatNames == {CItems, CVeryRare, CSurvivor, CRareRaw, CLower, CPagesUsing, CPerks, <<>>}

CatLists == UNION {[1..n -> CatNames] : n \in 0..MaxCats}

\* Responses of the render endpoint as fetch_json sees them.
TransportError == [status |-> "transport_error", parse |-> None]
DecodeError    == [status |-> "decode_error", parse |-> None]
MissingParse   == [status |-> "ok", parse |-> None]
Rendered(doc, categories) ==
    [status |-> "ok", parse |-> Some([text |-> doc, categories |-> categories])]

FullDoc == [table |-> Some([tbody |-> TRUE, rows |-> <<HeaderRow, FullRow>>])]
BareDoc == [table |-> None]

\* ------------------------------------------------------------------------
\* parse_item_page and its helpers
\* ------------------------------------------------------------------------

\* needle in s
Contains(s, needle) ==
    \E k \in 0..(Len(s) - Len(needle)) : SubSeq(s, k + 1, k + Len(needle)) = needle

\* _MULTISPACE_RE.sub(" ", s), scanning s into out.
RECURSIVE CollapseSpaces(_, _)
CollapseSpaces(s, out) ==
    IF s = <<>> THEN out
    ELSE IF IsSpace(Head(s))
         THEN CollapseSpaces(Tail(s),
                             IF out # <<>> /\ out[Len(out)] = 32 THEN out ELSE Append(out, 32))
    ELSE CollapseSpaces(Tail(s), Append(out, Head(s)))

\* The characters of _SPACE_BEFORE_PUNCT_RE: , . ; : ! ? %
Punctuation == {44, 46, 59, 58, 33, 63, 37}

\* _SPACE_BEFORE_PUNCT_RE.sub(r"\1", s): a run of spaces that a punctuation
\* character follows is removed.
RECURSIVE DropSpaceBeforePunct(_)
DropSpaceBeforePunct(s) ==
    IF s = <<>> THEN <<>>
    ELSE IF IsSpace(Head(s))
         THEN LET rest == LStrip(s)
              IN  IF rest # <<>> /\ Head(rest) \in Punctuation
                  THEN DropSpaceBeforePunct(rest)
                  ELSE <<Head(s)>> \o DropSpaceBeforePunct(Tail(s))
    ELSE <<Head(s)>> \o DropSpaceBeforePunct(Tail(s))

\* clean_text on an optional string.
clean_text(s) ==
    IF s = None THEN None
    ELSE LET t == DropSpaceBeforePunct(Strip(CollapseSpaces(s[1], <<>>)))
         IN  IF t = <<>> THEN None ELSE Some(t)

\* The non-empty clean_text of each text of a list, in order.
CleanTexts(texts) ==
    LET cleaned == [k \in 1..Len(texts) |-> clean_text(Some(texts[k]))]
        kept    == SelectSeq(cleaned, LAMBDA t : t # None)
    IN  [k \in 1..Len(kept) |-> kept[k][1]]

\* " ".join(parts)
RECURSIVE JoinSpace(_)
JoinSpace(parts) ==
    IF parts = <<>> THEN <<>>
    ELSE IF Len(parts) = 1 THEN parts[1]
    ELSE parts[1] \o <<32>> \o JoinSpace(Tail(parts))

\* The loop of lines 233-237: the first italic text holding a double quote.
RECURSIVE FirstQuoted(_)
FirstQuoted(italics) ==
    IF italics = <<>> THEN None
    ELSE LET t == clean_text(Some(Head(italics)))
         IN  IF t # None /\ Contains(t[1], <<34>>) THEN Some(Strip(t[1]))
             ELSE FirstQuoted(Tail(italics))

extract_description_parts(desc_td) ==
    IF desc_td = None THEN NoDescription
    ELSE LET td            == desc_td[1]
             summary_parts == IF td.ul # None THEN CleanTexts(td.ul[1].before) ELSE <<>>
             effects       == IF td.ul # None THEN CleanTexts(td.ul[1].lis) ELSE <<>>
         IN  [summary     |-> clean_text(Some(JoinSpace(summary_parts))),
              effects     |-> effects,
              flavor_text |-> clean_text(FirstQuoted(td.italics)),
              raw_text    |-> clean_text(Some(td.text))]

NeedleBloodpoints == <<98, 108, 111, 111, 100, 112, 111, 105, 110, 116, 115>>  \* "bloodpoints"
NeedleShards      == <<115, 104, 97, 114, 100, 115>>                           \* "shards"
NeedleAuric       == <<97, 117, 114, 105, 99>>                                 \* "auric"
NeedleCells       == <<99, 101, 108, 108, 115>>                                \* "cells"

_CURRENCY_HINTS ==
    << <<NeedleBloodpoints, "bloodpoints">>,
       <<<<98, 112>>, "bloodpoints">>,                                         \* "bp"
       <<<<105, 114, 105, 100, 101, 115, 99, 101, 110, 116, 32>> \o NeedleShards,
         "iridescent_shards">>,                                                \* "iridescent shards"
       <<NeedleShards, "iridescent_shards">>,
       <<NeedleAuric \o <<32>> \o NeedleCells, "auric_cells">>,                \* "auric cells"
       <<NeedleCells, "auric_cells">> >>

\* The loop of lines 175-187 over the images of the cell.
RECURSIVE CurrencyByIcon(_)
CurrencyByIcon(imgs) ==
    IF imgs = <<>> THEN None
    ELSE LET img  == Head(imgs)
             alt  == Lower(IF img.alt # None THEN img.alt[1] ELSE <<>>)
             src  == Lower(IF img.src # None THEN img.src[1] ELSE <<>>)
             blob == alt \o <<32>> \o src
         IN  IF Contains(blob, NeedleBloodpoints) THEN Some("bloodpoints")
             ELSE IF Contains(blob, NeedleShards) THEN Some("iridescent_shards")
             ELSE IF Contains(blob, NeedleAuric) \/ Contains(blob, NeedleCells)
                  THEN Some("auric_cells")
             ELSE CurrencyByIcon(Tail(imgs))

\* The loop of lines 191-194 over the hints, from the k-th on.
RECURSIVE CurrencyByText(_, _)
CurrencyByText(lower, k) ==
    IF k > Len(_CURRENCY_HINTS) THEN None
    ELSE IF Contains(lower, _CURRENCY_HINTS[k][1]) THEN Some(_CURRENCY_HINTS[k][2])
    ELSE CurrencyByText(lower, k + 1)

IsDigit(ch) == ch \in 48..57

\* The longest prefix of s made of digits and commas.
RECURSIVE DigitRun(_)
DigitRun(s) ==
    IF s # <<>> /\ (IsDigit(Head(s)) \/ Head(s) = 44)
    THEN <<Head(s)>> \o DigitRun(Tail(s)) ELSE <<>>

\* re.search(r"(\d[\d,]*)", text): the match, None without one.
RECURSIVE SearchAmount(_)
SearchAmount(text) ==
    IF text = <<>> THEN None
    ELSE IF IsDigit(Head(text)) THEN Some(DigitRun(text))
    ELSE SearchAmount(Tail(text))

\* int(digits.replace(",", "")), acc being the value read so far.
RECURSIVE ToInt(_, _)
ToInt(digits, acc) ==
    IF digits = <<>> THEN acc
    ELSE IF Head(digits) = 44 THEN ToInt(Tail(digits), acc)
    ELSE ToInt(Tail(digits), 10 * acc + (Head(digits) - 48))

parse_cost_cell(td) ==
    IF td = None THEN ParsedCost(None, None)
    ELSE LET text     == Strip(CollapseSpaces(td[1].text, <<>>))
             by_icon  == CurrencyByIcon(td[1].imgs)
             currency == IF by_icon = None THEN CurrencyByText(Lower(text), 1) ELSE by_icon
             m        == SearchAmount(text)
         IN  ParsedCost(IF m # None THEN Some(ToInt(m[1], 0)) ELSE None, currency)

\* [normalize_category_name(c.get("*", "")) for c in ... if c.get("*")]
NormalizedCats(raw) ==
    LET kept == SelectSeq(raw, LAMBDA c : c # <<>>)
    IN  [k \in 1..Len(kept) |-> normalize_category_name(kept[k])]

\* [c for c in cats if not c.lower().startswith("pages using ")]
DropMaintenance(cats) ==
    SelectSeq(cats, LAMBDA c : ~StartsWith(Lower(c), PfxPagesUsing))

\* SelectRow that takes the first row of the table, the header row.
SelectRow_First(table) ==
    IF Len(table.rows) >= 1 THEN Some(table.rows[1]) ELSE None

\* table.select_one("tbody tr + tr"), else the second of table.select("tr").
SelectRow(table) ==
    LET row == IF table.tbody /\ Len(table.rows) >= 2 THEN Some(table.rows[2]) ELSE None
    IN  IF row # None THEN row
        ELSE IF Len(table.rows) > 1 THEN Some(table.rows[2]) ELSE None

\* InferRarity without the "break": the last matching category wins.
RECURSIVE InferRarity_Last(_)
InferRarity_Last(cats) ==
    IF cats = <<>> THEN None
    ELSE LET c == cats[Len(cats)]
         IN  IF EndsWith(Lower(c), SfxItems) /\ Lower(c) \notin {StrItems}
             THEN Some(Strip(SubSeq(c, 1, Len(c) - Len(SfxItems))))
             ELSE InferRarity_Last(SubSeq(cats, 1, Len(cats) - 1))

\* The loop of lines 292-296.
RECURSIVE InferRarity(_)
InferRarity(cats) ==
    IF cats = <<>> THEN None
    ELSE LET c == Head(cats)
         IN  IF EndsWith(Lower(c), SfxItems) /\ Lower(c) \notin {StrItems}
             THEN Some(Strip(SubSeq(c, 1, Len(c) - Len(SfxItems))))
             ELSE InferRarity(Tail(cats))

Raised(message) == [ok |-> FALSE, error |-> message, slept |-> FALSE, item |-> None]

Returned(item) == [ok |-> TRUE, error |-> "", slept |-> TRUE, item |-> Some(item)]

\* parse_item_page(title): data is the outcome of its fetch_json call.
\* slept tells whether time.sleep(sleep_s) of line 298 was reached.
parse_item_page(title, data) ==
    IF data.status = "transport_error" THEN Raised("Request failed")
    ELSE IF data.status = "decode_error" THEN Raised("Failed to decode JSON")
    ELSE IF data.parse = None THEN Raised("Missing parse output for page")
    ELSE
      LET parse == data.parse[1]
          cats  == DropMaintenance(NormalizedCats(parse.categories))
          table == parse.text.table
          row   == IF table # None THEN SelectRow(table[1]) ELSE None
          cells == IF row # None THEN row[1] ELSE <<>>
          icon_url ==
              IF Len(cells) >= 1 /\ cells[1].imgs # <<>>
              THEN LET img == cells[1].imgs[1]
                   IN  Some(join_url(IF img.src # None /\ img.src[1] # <<>>
                                     THEN img.src[1] ELSE <<>>))
              ELSE None
          description ==
              IF Len(cells) >= 2 THEN extract_description_parts(Some(cells[2]))
              ELSE NoDescription
          cost ==
              IF Len(cells) >= 3 THEN parse_cost_cell(Some(cells[3]))
              ELSE ParsedCost(None, None)
      IN  Returned([title       |-> title,
                    wiki_url    |-> canonical_page_url(title),
                    rarity      |-> InferRarity(cats),
                    icon_url    |-> icon_url,
                    cost        |-> [amount |-> cost.amount, currency |-> cost.currency],
                    description |-> description,
                    categories  |-> cats])

\* ------------------------------------------------------------------------
\* main: the extraction loop and the output document
\* ------------------------------------------------------------------------

\* The render responses the run may meet for a title.
RunResponses ==
    {TransportError, MissingParse,
     Rendered(FullDoc, <<CItems, CVeryRare>>), Rendered(BareDoc, <<>>)}

\* ScrapeTitle without the try/except: a failure ends the run.
ScrapeTitle_Uncaught ==
    /\ pc = "extract"
    /\ i < Len(titles)
    /\ \E data \in RunResponses :
         LET title == titles[i + 1]
             r     == parse_item_page(title, data)
         IN  /\ items' = IF r.ok THEN Append(items, r.item[1]) ELSE items
             /\ pc' = IF r.ok THEN pc ELSE "crashed"
             /\ render_reqs' = [render_reqs EXCEPT ![title] = @ + 1]
             /\ last_out' = IF r.slept THEN "sleep" ELSE "request"
    /\ burst' = (burst \/ last_out = "request")
    /\ i' = i + 1
    /\ UNCHANGED <<limit, seen_cats, queue, pages, cat, cont, titles, payload,
                   errors, wiki, discovered, member_reqs, tokens, consumed,
                   sent_tok, got_tok, call, marks>>

\* ScrapeTitle that puts each result at the front of its list.
ScrapeTitle_Prepend ==
    /\ pc = "extract"
    /\ i < Len(titles)
    /\ \E data \in RunResponses :
         LET title == titles[i + 1]
             r     == parse_item_page(title, data)
         IN  /\ items' = IF r.ok THEN <<r.item[1]>> \o items ELSE items
             /\ errors' = IF r.ok THEN errors
                          ELSE <<[title |-> title, error |-> r.error]>> \o errors
             /\ render_reqs' = [render_reqs EXCEPT ![title] = @ + 1]
             /\ last_out' = IF r.slept THEN "sleep" ELSE "request"
    /\ burst' = (burst \/ last_out = "request")
    /\ i' = i + 1
    /\ UNCHANGED <<pc, limit, seen_cats, queue, pages, cat, cont, titles, payload,
                   wiki, discovered, member_reqs, tokens, consumed, sent_tok,
                   got_tok, call, marks>>

\* One iteration of "for i, title in enumerate(titles, start=1)".
ScrapeTitle ==
    /\ pc = "extract"
    /\ i < Len(titles)
    /\ \E data \in RunResponses :
         LET title == titles[i + 1]
             r     == parse_item_page(title, data)
         IN  /\ items' = IF r.ok THEN Append(items, r.item[1]) ELSE items
             /\ errors' = IF r.ok THEN errors
                          ELSE Append(errors, [title |-> title, error |-> r.error])
             /\ render_reqs' = [render_reqs EXCEPT ![title] = @ + 1]
             /\ last_out' = IF r.slept THEN "sleep" ELSE "request"
    /\ burst' = (burst \/ last_out = "request")
    /\ i' = i + 1
    /\ UNCHANGED <<pc, limit, seen_cats, queue, pages, cat, cont, titles, payload,
                   wiki, discovered, member_reqs, tokens, consumed, sent_tok,
                   got_tok, call, marks>>

\* The loop is over: build the payload and write it to args.out.  The
\* scraped_at timestamp is left out.
WriteOutput ==
    /\ pc = "extract"
    /\ i = Len(titles)
    /\ payload' = Some([source |-> WIKI_BASE, count |-> Len(items),
                        items |-> items, errors |-> errors])
    /\ pc' = "done"
    /\ UNCHANGED <<limit, seen_cats, queue, pages, cat, cont, titles, i, items,
                   errors, wiki, discovered, member_reqs, tokens, consumed,
                   sent_tok, got_tok, render_reqs, last_out, burst, call, marks>>

Next ==
    \/ SkipSeenCategory
    \/ VisitCategory
    \/ FetchMembers
    \/ FetchMembersFail
    \/ ReturnTitles
    \/ ScrapeTitle
    \/ WriteOutput

Spec == Init /\ [][Next]_vars

FairSpec == Spec /\ WF_vars(Next)

\* ------------------------------------------------------------------------
\* parse_item_page called on its own
\* ------------------------------------------------------------------------
MedKit == <<77, 101, 100, 32, 75, 105, 116>>  \* "Med Kit"

ArgTitles == {Axe, MedKit}

\* Every page structure with a few category lists, and every category list
\* with a few page structures.
ArgResponses ==
    {TransportError, DecodeError, MissingParse}
    \cup {Rendered(d, c) : d \in Docs, c \in {<<>>, <<CItems, CVeryRare, CSurvivor>>}}
    \cup {Rendered(d, c) : d \in {BareDoc, FullDoc}, c \in CatLists}

PageInit ==
    /\ pc = "call"
    /\ arg_title \in ArgTitles
    /\ arg_data \in ArgResponses
    /\ result = None
    /\ limit = 0
    /\ seen_cats = {}
    /\ queue = <<>>
    /\ pages = {}
    /\ cat = None
    /\ cont = {}
    /\ titles = <<>>
    /\ i = 0
    /\ items = <<>>
    /\ errors = <<>>
    /\ payload = None
    /\ wiki = [c \in Cats |-> {}]
    /\ discovered = None
    /\ visits = [c \in Cats |-> 0]
    /\ failures = 0
    /\ member_reqs = [c \in Cats |-> 0]
    /\ tokens = [c \in Cats |-> 0]
    /\ consumed = [c \in Cats |-> {}]
    /\ sent_tok = {}
    /\ got_tok = {}
    /\ render_reqs = [t \in PageTitles |-> 0]
    /\ last_out = "none"
    /\ burst = FALSE

CallParseItemPage ==
    /\ pc = "call"
    /\ result' = Some(parse_item_page(arg_title, arg_data))
    /\ pc' = "returned"
    /\ UNCHANGED <<limit, seen_cats, queue, pages, cat, cont, titles, i, items,
                   errors, payload, wiki, discovered, member_reqs, tokens,
                   consumed, sent_tok, got_tok, render_reqs, last_out, burst,
                   arg_title, arg_data, marks>>

PageNext == CallParseItemPage

PageSpec == PageInit /\ [][PageNext]_vars

\* ------------------------------------------------------------------------
\* Vocabulary of the properties
\* ------------------------------------------------------------------------

\* a comes strictly before b in code-point order.
RECURSIVE LexBefore(_, _)
LexBefore(a, b) ==
    IF b = <<>> THEN FALSE
    ELSE IF a = <<>> THEN TRUE
    ELSE IF Head(a) # Head(b) THEN Head(a) < Head(b)
    ELSE LexBefore(Tail(a), Tail(b))

\* The titles of the namespace-0 members of the reachable categories.
ReachableTitles(w) ==
    {m.title : m \in {x \in UNION {w[c] : c \in ReachableCats(w)} :
                         x.ns = 0 /\ x.title # <<>>}}

Ascending(s) == \A j, k \in 1..Len(s) : j < k => LexBefore(s[j], s[k])

\* s is obtained from t by deleting elements.
RECURSIVE IsSubsequence(_, _)
IsSubsequence(s, t) ==
    IF s = <<>> THEN TRUE
    ELSE IF t = <<>> THEN FALSE
    ELSE IF Head(s) = Head(t) THEN IsSubsequence(Tail(s), Tail(t))
    ELSE IsSubsequence(s, Tail(t))

TitlesOf(records) == [k \in 1..Len(records) |-> records[k].title]

Occurrences(s, x) == Cardinality({k \in 1..Len(s) : s[k] = x})

TraversalOver == pc \in {"extract", "done", "crashed"}

\* ------------------------------------------------------------------------
\* C1
\* ------------------------------------------------------------------------

\* C1: on every category graph of the model, cycles and shared
\* sub-categories included, the traversal ends, the enumeration of a
\* category is started at most once, and popping a category whose
\* enumeration was already started issues no request.
C1_TerminatesVisitingOnce ==
    /\ [](\A c \in Cats : visits[c] <= 1)
    /\ [][(pc = "traverse" /\ queue # <<>> /\ visits[Head(queue)] >= 1)
            => (member_reqs' = member_reqs /\ visits' = visits /\ pc' = "traverse")]_vars
    /\ <>TraversalOver

\* The traversal returned on a graph where the root lists A and A lists the
\* root back; the root was popped a second time and skipped.
C1_Witness ==
    /\ pc = "extract"
    /\ Member(14, CatA) \in wiki[RootCategory]
    /\ Member(14, RootCategory) \in wiki[CatA]
    /\ cat = RootCategory
    /\ visits[CatA] = 1
    /\ member_reqs[RootCategory] = 1

\* ------------------------------------------------------------------------
\* C2
\* ------------------------------------------------------------------------

\* C2: the list discover_item_pages returns holds exactly the titles of the
\* namespace-0 members of the categories reachable from the root, each
\* once, in ascending order, whatever order the members were listed in.
C2_ReturnsReachableTitlesSorted ==
    discovered # None =>
        /\ Range(discovered[1]) = ReachableTitles(wiki)
        /\ Ascending(discovered[1])

\* A title tagged with two reachable categories was returned once.
C2_Witness ==
    /\ discovered = Some(<<Axe>>)
    /\ Member(14, CatA) \in wiki[RootCategory]
    /\ Member(0, Axe) \in wiki[RootCategory]
    /\ Member(0, Axe) \in wiki[CatA]

\* ------------------------------------------------------------------------
\* C3
\* ------------------------------------------------------------------------

\* C3: once the enumeration of a category is over, it took one request more
\* than the number of responses that carried a continuation, and every
\* member of the category was handled; the first request carries no
\* continuation and each later one carries the continuation of the
\* previous response.
C3_PagedEnumeration ==
    /\ [](\A c \in Cats :
            (visits[c] >= 1 /\ ~(pc \in {"members", "crashed"} /\ cat = c))
               => (member_reqs[c] = tokens[c] + 1 /\ consumed[c] = wiki[c]))
    /\ [][(pc = "members" /\ member_reqs'[cat] = member_reqs[cat] + 1)
            => IF member_reqs[cat] = 0 THEN sent_tok' = {}
               ELSE got_tok # {} /\ sent_tok' = got_tok]_vars

\* The root's listing took three response pages.
C3_Witness ==
    /\ pc = "traverse"
    /\ cat = RootCategory
    /\ tokens[RootCategory] = 2
    /\ member_reqs[RootCategory] = 3
    /\ Cardinality(consumed[RootCategory]) = 3

\* ------------------------------------------------------------------------
\* C4
\* ------------------------------------------------------------------------

\* C4: once the traversal has returned, the run cannot stop before the
\* document is written; every handled title is in exactly one of items and
\* errors, and the document's count is the length of its items.
C4_ExtractionFailuresIsolated ==
    /\ discovered # None => pc \in {"extract", "done"}
    /\ pc = "extract" => ENABLED (ScrapeTitle \/ WriteOutput)
    /\ pc \in {"extract", "done"} =>
          /\ Len(items) + Len(errors) = i
          /\ \A k \in 1..i :
                Occurrences(TitlesOf(items), titles[k])
                  + Occurrences(TitlesOf(errors), titles[k]) = 1
    /\ pc = "done" =>
          /\ i = Len(titles)
          /\ payload # None
          /\ payload[1].count = Len(payload[1].items)
          /\ payload[1].items = items
          /\ payload[1].errors = errors

\* A document written after both titles failed.
C4_Witness ==
    /\ pc = "done"
    /\ payload[1].count = 0
    /\ Len(payload[1].errors) = 2

\* ------------------------------------------------------------------------
\* C5
\* ------------------------------------------------------------------------

\* C5: after a failed categorymembers request the run is dead: nothing
\* more happens, no list of titles was returned, no page was requested and
\* no document was written.
C5_TraversalFailureFatal ==
    /\ [](failures > 0 =>
            /\ pc = "crashed"
            /\ failures = 1
            /\ discovered = None
            /\ titles = <<>>
            /\ items = <<>>
            /\ payload = None
            /\ \A t \in PageTitles : render_reqs[t] = 0)
    /\ [][failures = 0]_vars

\* The request for a continuation page failed after a title was found.
C5_Witness ==
    /\ pc = "crashed"
    /\ pages # {}
    /\ tokens[cat] >= 1

\* ------------------------------------------------------------------------
\* C6
\* ------------------------------------------------------------------------

\* C6: no request is issued right after another request, without a delay
\* in between.
C6_DelayBetweenRequests == ~burst

\* ------------------------------------------------------------------------
\* C7
\* ------------------------------------------------------------------------

\* C7: the titles of items and those of errors are each a subsequence of
\* the list the traversal returned, and the item titles are ascending.
C7_ListsKeepDiscoveryOrder ==
    pc \in {"extract", "done"} =>
        /\ IsSubsequence(TitlesOf(items), discovered[1])
        /\ IsSubsequence(TitlesOf(errors), discovered[1])
        /\ Ascending(TitlesOf(items))
        /\ Ascending(TitlesOf(errors))
        /\ pc = "done" => Ascending(TitlesOf(payload[1].items))

\* Two items were written, in the order of discovery.
C7_Witness ==
    /\ pc = "done"
    /\ TitlesOf(payload[1].items) = <<Ax, Axe>>

\* ------------------------------------------------------------------------
\* C10
\* ------------------------------------------------------------------------

\* The titles the extraction loop is to handle under --limit n.
Capped(s, n) == IF n > 0 THEN SubSeq(s, 1, IF n < Len(s) THEN n ELSE Len(s)) ELSE s

\* C10: whatever the limit, the whole graph is traversed; the titles
\* handled are the first min(limit, number found) when the limit is
\* positive and all of them otherwise, and at the end each of them was
\* requested once and no other title was requested.
C10_LimitOnlyCapsExtraction ==
    pc \in {"extract", "done"} =>
        /\ seen_cats = ReachableCats(wiki)
        /\ Range(discovered[1]) = ReachableTitles(wiki)
        /\ titles = Capped(discovered[1], limit)
        /\ \A t \in PageTitles :
              render_reqs[t] = Occurrences(SubSeq(titles, 1, i), t)
        /\ pc = "done" =>
              \A t \in PageTitles :
                  render_reqs[t] = IF t \in Range(Capped(discovered[1], limit)) THEN 1 ELSE 0

\* With a limit of 1 and two titles found, only the first was requested.
C10_Witness ==
    /\ pc = "done"
    /\ limit = 1
    /\ discovered = Some(<<Ax, Axe>>)
    /\ render_reqs[Ax] = 1
    /\ render_reqs[Axe] = 0

\* ------------------------------------------------------------------------
\* C8
\* ------------------------------------------------------------------------

\* The cells of the row the record is read from: none without a table or
\* with a table of fewer than two rows.
DataCells(doc) ==
    IF doc.table = None THEN <<>>
    ELSE IF Len(doc.table[1].rows) < 2 THEN <<>>
    ELSE doc.table[1].rows[2]

\* The names of a raw category list that are kept: those that are not
\* empty and, read with spaces for underscores, not maintenance categories.
KeptCats(raw) ==
    SelectSeq(raw, LAMBDA c : c # <<>> /\ ~StartsWith(Lower(Replace(c, 95, 32)), PfxPagesUsing))

\* C8: when the render response holds a parse result, parse_item_page
\* returns a record whatever the page structure; a field whose cell is
\* missing is unset, and title, URL and categories are populated.
C8_StructureNeverRaises ==
    (pc = "returned" /\ arg_data.parse # None) =>
        LET r     == result[1]
            doc   == arg_data.parse[1].text
            n     == Len(DataCells(doc))
        IN  /\ r.ok
            /\ r.item[1].title = arg_title
            /\ Len(r.item[1].wiki_url) > Len(WIKI_BASE)
            /\ Len(r.item[1].categories) = Len(KeptCats(arg_data.parse[1].categories))
            /\ n < 1 => r.item[1].icon_url = None
            /\ n < 2 => r.item[1].description = NoDescription
            /\ n < 3 => r.item[1].cost = ParsedCost(None, None)

\* A page whose data row has two cells: icon and description are read, the
\* cost stays unset.
C8_Witness ==
    /\ pc = "returned"
    /\ arg_data.parse # None
    /\ Len(DataCells(arg_data.parse[1].text)) = 2
    /\ result[1].ok
    /\ result[1].item[1].icon_url # None
    /\ result[1].item[1].description # NoDescription
    /\ result[1].item[1].cost = ParsedCost(None, None)

\* ------------------------------------------------------------------------
\* C9
\* ------------------------------------------------------------------------

\* c is a rarity category: it ends with " Items" in any letter case and is
\* not just "Items".
IsRarityCat(c) ==
    /\ Len(c) >= Len(SfxItems)
    /\ \A k \in 1..Len(SfxItems) :
          LET ch == c[Len(c) - Len(SfxItems) + k]
          IN  ch = SfxItems[k] \/ ch + 32 = SfxItems[k]
    /\ Lower(c) # StrItems

\* C9: the rarity of a record is the name, without its " Items" suffix, of
\* the first rarity category of the record's category list, and is unset
\* when the list has none.
C9_RarityFirstMatch ==
    (pc = "returned" /\ result[1].ok) =>
        LET item == result[1].item[1]
            cats == item.categories
            hits == {k \in 1..Len(cats) : IsRarityCat(cats[k])}
        IN  IF hits = {} THEN item.rarity = None
            ELSE LET first == CHOOSE k \in hits : \A j \in hits : k <= j
                 IN  /\ item.rarity # None
                     /\ item.rarity[1] \o SubSeq(cats[first], Len(cats[first]) - 5, Len(cats[first]))
                          = cats[first]

\* The example of the specification: Items, Very Rare Items, Survivor Items.
C9_Witness ==
    /\ pc = "returned"
    /\ arg_data.parse # None
    /\ arg_data.parse[1].categories = <<CItems, CVeryRare, CSurvivor>>
    /\ result[1].ok
    /\ result[1].item[1].rarity = Some(<<86, 101, 114, 121, 32, 82, 97, 114, 101>>)

====
